---- MODULE Spec2Model ----
(***************************************************************************)
(* Model of the hook runtime of actuate-core (crates/actuate-core/src/     *)
(* lib.rs): ScopeData and its hook slots, the hooks use_ref, use_mut,      *)
(* use_memo, use_provider, use_context and use_drop, the Mut handle with   *)
(* its deferred updates, the thread-local Runtime with its Updater, the    *)
(* Map/RefMap containers that create an inner ScopeData, the Composer and  *)
(* the teardown run by Drop for ScopeData.                                 *)
(*                                                                         *)
(* Rust indices are 0-based; sequences here are 1-based: the Rust slot     *)
(* index k is the element k + 1 of hooks[s], and hook_idx keeps the Rust   *)
(* value (the number of slots already visited in the pass).                *)
(***************************************************************************)
EXTENDS Integers, Sequences, FiniteSets, TLC

\* ---------------------------------------------------------------- bounds
MaxHooks == 4       \* hook slots of one tree, all its ScopeData together
MaxMutHooks == 2    \* the same, of a tree whose values a host updates
MaxGen == 2         \* cap on a generation counter
MaxQueue == 4       \* cap on the updates a queued updater holds
MaxPending == 2     \* cap on the queued updates requested through handles
MaxRtHooks == 1     \* hook slots where the runtime and its updater are studied
MaxOther == 1       \* cap on the updates the second Composer's updater holds
MaxPasses == 3      \* cap on the compose() calls a test driver makes
MaxDepHooks == 3    \* hook slots where a memo depends on a mutable value
MaxAllHooks == 3    \* hook slots of a tree that uses every kind of hook
MaxMaps == 1        \* cap on the mapped references held at a time
MaxDataPending == 1 \* cap on the queued updates of a mapped value
MaxViews == 2       \* View prototype: nodes built
MaxStates == 2      \* View prototype: use_state calls of one body
MaxSends == 1       \* View prototype: Updates waiting in the channel
MaxCoord == 3       \* Window: largest cursor coordinate

ScopeIds == 1..(MaxHooks + 1)
Vals == {0, 1}
Types == {"A", "B"}
Callbacks == {"f", "g"}
NoRet == [tag |-> "none"]
ViewKeys == 1..MaxViews
Nodes == {1, 2, 3}
None == [tag |-> "None"]
Some(x) == [tag |-> "Some", id |-> x]

VARIABLES
    hooks,              \* ScopeData::hooks, per scope: the slots
    hook_idx,           \* ScopeData::hook_idx
    is_changed,         \* ScopeData::is_changed
    is_parent_changed,  \* ScopeData::is_parent_changed
    is_container,       \* ScopeData::is_container
    contexts,           \* ScopeData::contexts: type -> provided value or "none"
    drops,              \* ScopeData::drops: Rust slot indices of teardowns
    nscopes,            \* ScopeData instances created so far (ids 1..nscopes)
    live,               \* the ScopeData instances not yet destroyed
    RUNTIME,            \* the thread-local current runtime: "None" or "Some"
    policy,             \* the Updater of the Composer's Runtime
    queue,              \* updates a queued Updater holds, oldest first
    stack,              \* scopes whose compose is running, innermost last
    last,               \* what the last operation did and returned
    dropLog,            \* teardown callbacks run so far, in order
    seenDep,            \* per use_memo / Memo site: the keys it was given
    otherUpdater,       \* updates held by the updater of a second Composer
    standalone,         \* the ScopeData instances made outside a Composer
    counter,            \* per scope: the external counter of its composable
    passes,             \* Composer::compose calls counted by the test driver
    seenFn,             \* per use_callback call site: the last closures given
    mutated,            \* per dependency slot: mutations since its memo's call
    maps,               \* the Map handles a composable holds
    tree_nodes,         \* View prototype, Tree::nodes: the keys 1..tree_nodes
    inner_hooks,        \* View prototype, ScopeInner::hooks per node key
    inner_hook_idx,     \* View prototype, ScopeInner::hook_idx per node key
    running,            \* View prototype: key of the node whose body runs
    calls,              \* View prototype: per key, what each use_state gave
    tx,                 \* View prototype: Updates sent and not received
    received,           \* View prototype: run() has received an Update
    window,             \* Window: its event handler is installed
    taffy,              \* Window: the layout tree of WindowContext
    listeners,          \* Window: the nodes WindowContext has listeners for
    cursor_pos,         \* Window: cursor_pos, the last reported position
    target,             \* Window: target, the node hit last
    delivered,          \* Window: events the last CursorMoved delivered
    inside              \* Window: per node, its last MouseIn/Out was MouseIn

\* The View prototype of src/lib.rs.
viewVars == <<tree_nodes, inner_hooks, inner_hook_idx, running, calls, tx,
              received>>

\* The event handler of the Window composable.
winVars == <<window, taffy, listeners, cursor_pos, target, delivered, inside>>

protoVars == <<viewVars, winVars>>

\* The thread around the Composer: a second Composer, host-made scopes, the
\* counters and the pass count of a test, the closures seen at call sites.
envVars == <<otherUpdater, standalone, counter, passes, seenFn, mutated, maps, protoVars>>

vars == <<hooks, hook_idx, is_changed, is_parent_changed, is_container,
          contexts, drops, nscopes, live, RUNTIME, policy, queue, stack,
          last, dropLog, seenDep, envVars>>

scopeVars == <<hooks, hook_idx, is_changed, is_parent_changed, is_container,
               contexts, drops>>

\* ------------------------------------------------------------ hook slots
Slot(by, val) == [by |-> by, val |-> val, gen |-> 0]

EmptyContexts == [t \in Types |-> [tag |-> "none"]]

\* The scope being composed, 0 outside a pass.
Cur == IF stack = <<>> THEN 0 ELSE stack[Len(stack)]

\* The call at the cursor is the call that allocated the slot there (the hook
\* order is the same on every pass), or the cursor is past the last slot.
SameCall(s, by) ==
    hook_idx[s] < Len(hooks[s]) => hooks[s][hook_idx[s] + 1].by = by

RECURSIVE SlotsUpTo(_)
SlotsUpTo(n) == IF n = 0 THEN 0 ELSE Len(hooks[n]) + SlotsUpTo(n - 1)

\* The hook slots of the tree.
TotalSlots == SlotsUpTo(nscopes)

\* The slots that hold the ScopeData of a composable's content.
ContentSlots == {"container", "child", "dyn_child", "memo_child"}

\* A compose function calls its hooks and then hands its content on: no hook
\* slot is allocated behind the slot of an inner ScopeData.
MayAllocate(s, n, cap) ==
    hook_idx[s] >= Len(hooks[s]) =>
        /\ TotalSlots + n <= cap
        /\ (Len(hooks[s]) > 0 => hooks[s][Len(hooks[s])].by \notin ContentSlots)

\* Mutant of HooksAfterUseRef: the init closure's value is stored on every call.
HooksAfterUseRefReinit(h, idx, slot) ==
    IF idx >= Len(h) THEN Append(h, slot) ELSE [h EXCEPT ![idx + 1] = slot]

\* Mutant of HooksAfterUseRef: every call pushes a slot.
HooksAfterUseRefPush(h, idx, slot) == Append(h, slot)

HooksAfterUseRef(h, idx, slot) ==
    IF idx >= Len(h) THEN Append(h, slot) ELSE h

\* ------------------------------------------------------- deferred updates
\* The closures handed to Mut::update / Mut::with: |x| *x = v, and one that
\* reads the value it changes, |x| *x = 1 - *x.
Set(v) == [op |-> "set", val |-> v]

Flip == [op |-> "flip", val |-> 0]

Call(f, x) == IF f.op = "set" THEN f.val ELSE 1 - x

\* An Update built by Mut::update ("update") or Mut::with ("with"): the slot
\* it points into (Rust index idx) and the closure f it runs on the value.
Upd(kind, s, idx, f) == [kind |-> kind, scope |-> s, idx |-> idx, f |-> f]

\* Mutant of ApplySlot: the generation counter is left alone.
ApplySlotNoBump(slot, u) == [slot EXCEPT !.val = Call(u.f, @)]

\* Update::apply on the closure of Mut::update / Mut::with: the slot.
ApplySlot(slot, u) ==
    [slot EXCEPT !.val = Call(u.f, @),
                 !.gen = IF u.kind = "update" THEN @ + 1 ELSE @]

\* Mutant of ApplyChanged: Mut::with marks the scope changed too.
ApplyChangedAlways(C, u) == [C EXCEPT ![u.scope] = TRUE]

\* Update::apply on the closure of Mut::update: the owning scope's flag.
ApplyChanged(C, u) ==
    IF u.kind = "update" THEN [C EXCEPT ![u.scope] = TRUE] ELSE C

Apply(st, u) ==
    [st EXCEPT !.hooks[u.scope][u.idx + 1] = ApplySlot(@, u),
               !.is_changed = ApplyChanged(@, u),
               !.applied = Append(@, u)]

\* Updater::update of a queued updater: the update is kept, behind the
\* updates it already holds.
QueuedUpdaterUpdate(st, u) == [st EXCEPT !.queue = Append(@, u)]

\* Mutant of UpdaterUpdate: every updater keeps the update for later.
UpdaterUpdateDefers(st, u) == QueuedUpdaterUpdate(st, u)

\* Updater::update: DefaultUpdater applies at once, a queued updater keeps it.
UpdaterUpdate(st, u) ==
    IF policy = "immediate" THEN Apply(st, u)
    ELSE QueuedUpdaterUpdate(st, u)

\* Mutant of RuntimeUpdate: the closure is run instead of handed on.
RuntimeUpdateApplies(st, u) == Apply(st, u)

\* Runtime::update, through Runtime::current().
RuntimeUpdate(st, u) == UpdaterUpdate(st, u)

St == [hooks |-> hooks, is_changed |-> is_changed, queue |-> queue,
       applied |-> <<>>]

\* Updates to a slot that are requested and not applied yet.
Pending(s, idx) ==
    Cardinality({k \in DOMAIN queue :
        queue[k].kind = "update" /\ queue[k].scope = s /\ queue[k].idx = idx})

Op(op, s, idx, ran, ret, arg, applied) ==
    [op |-> op, scope |-> s, idx |-> idx, ran |-> ran, ret |-> ret,
     arg |-> arg, applied |-> applied]

\* A use_memo call whose dependency is a handle takes the handle made by the
\* hook call just before it: the Mut of a use_mut call or the Ref a use_memo
\* call returned. The Rust index of the slot that handle points to, for the
\* call at cursor idx.
DepIdx(h, idx) == IF h[idx].by = "use_mut" THEN idx - 1 ELSE idx - 2

\* Whether the slot at Rust index i is the dependency of such a use_memo call.
IsDep(H, s, i) ==
    /\ i < Len(H[s])
    /\ H[s][i + 1].by \in {"use_mut", "use_memo"}
    /\ LET c == IF H[s][i + 1].by = "use_mut" THEN i + 2 ELSE i + 3
       IN  c <= Len(H[s]) /\ H[s][c].by = "use_memo_on"

\* The kinds of the updates applied to each dependency slot since the
\* use_memo call that depends on it was last made, after the updates A.
MutatedAfter(M, H, A) ==
    IF \A k \in DOMAIN A : ~IsDep(H, A[k].scope, A[k].idx) THEN M
    ELSE [s \in ScopeIds |-> [i \in 0..MaxHooks |->
            IF IsDep(H, s, i)
            THEN M[s][i] \cup {A[k].kind : k \in {j \in DOMAIN A :
                                    A[j].scope = s /\ A[j].idx = i}}
            ELSE M[s][i]]]

\* ------------------------------------------------------------------ Init
Init ==
    /\ hooks = [s \in ScopeIds |-> <<>>]
    /\ hook_idx = [s \in ScopeIds |-> 0]
    /\ is_changed = [s \in ScopeIds |-> FALSE]
    /\ is_parent_changed = [s \in ScopeIds |-> FALSE]
    /\ is_container = [s \in ScopeIds |-> FALSE]
    /\ contexts = [s \in ScopeIds |-> EmptyContexts]
    /\ drops = [s \in ScopeIds |-> <<>>]
    /\ nscopes = 1
    /\ live = {1}
    /\ RUNTIME = "None"
    /\ policy \in {"immediate", "queued"}
    /\ queue = <<>>
    /\ stack = <<>>
    /\ last = Op("new", 1, 0, FALSE, NoRet, NoRet, <<>>)
    /\ dropLog = <<>>
    /\ seenDep = [s \in ScopeIds |-> [i \in 0..MaxHooks |-> {}]]
    /\ otherUpdater = <<>>
    /\ standalone = {}
    /\ counter = [s \in ScopeIds |-> 0]
    /\ passes = 0
    /\ seenFn = [s \in ScopeIds |-> [i \in 0..MaxHooks |-> <<>>]]
    /\ mutated = [s \in ScopeIds |-> [i \in 0..MaxHooks |-> {}]]
    /\ maps = {}
    /\ tree_nodes = 0
    /\ inner_hooks = [k \in ViewKeys |-> <<>>]
    /\ inner_hook_idx = [k \in ViewKeys |-> 0]
    /\ running = 0
    /\ calls = [k \in ViewKeys |-> <<>>]
    /\ tx = <<>>
    /\ received = FALSE
    /\ window = FALSE
    /\ taffy = <<>>
    /\ listeners = {}
    /\ cursor_pos = <<0, 0>>
    /\ target = None
    /\ delivered = <<>>
    /\ inside = [n \in Nodes |-> FALSE]

\* ------------------------------------------------------------- traversal
\* Mutant of AnyComposeHookIdx: the cursor is left where the last pass ended.
AnyComposeHookIdxKeep(H, s) == H

\* The start of a node's compose step: the hook cursor is back at zero and
\* the sticky is_changed flag is consumed.
AnyComposeHookIdx(H, s) == [H EXCEPT ![s] = 0]

AnyComposeChanged(C, s) == [C EXCEPT ![s] = FALSE]

\* Mutant of RuntimeEnter: a runtime that is already current is kept.
RuntimeEnterOnce(R) == IF R = "None" THEN "Some" ELSE R

\* Runtime::enter of the Composer's Runtime: the thread-local afterwards.
RuntimeEnter(R) == "Some"

\* Composer::compose on the Composer and its root scope: enter the runtime,
\* compose the root.
ComposerEnterRoot ==
    /\ 1 \in live
    /\ stack = <<>>
    /\ RUNTIME' = RuntimeEnter(RUNTIME)
    /\ stack' = <<1>>
    /\ hook_idx' = AnyComposeHookIdx(hook_idx, 1)
    /\ is_changed' = AnyComposeChanged(is_changed, 1)
    /\ last' = Op("compose", 1, 0, FALSE, NoRet, NoRet, <<>>)
    /\ UNCHANGED <<hooks, is_parent_changed, is_container, contexts, drops,
                   nscopes, live, policy, queue, dropLog, seenDep>>

\* Composer::compose: enter the runtime, compose the root scope.
ComposerCompose == ComposerEnterRoot /\ UNCHANGED envVars

\* composer.compose() called by a test that counts its calls.
TestCompose ==
    /\ passes < MaxPasses
    /\ ComposerEnterRoot
    /\ passes' = passes + 1
    /\ UNCHANGED <<otherUpdater, standalone, counter, seenFn, mutated, maps, protoVars>>

\* The inner ScopeData a container makes on its first pass.
InnerContexts(C, s, c, first) ==
    IF first THEN [C EXCEPT ![c] = C[s]] ELSE C

\* Mutant of InnerParentChanged: the inner flag is left as it was.
InnerParentChangedKeep(P, s, c) == P

InnerParentChanged(P, s, c) == [P EXCEPT ![c] = P[s]]

\* The parent's traversal step sets is_parent_changed of the scope it is
\* about to compose, before the compose function makes its first hook call.
MarkParentChanged ==
    \E b \in BOOLEAN :
        /\ Cur # 0
        /\ hook_idx[Cur] = 0
        /\ last.op \in {"compose", "container"}
        /\ is_parent_changed' = [is_parent_changed EXCEPT ![Cur] = b]
        /\ last' = Op("mark", Cur, 0, FALSE, NoRet, [to |-> b], <<>>)
        /\ UNCHANGED <<hooks, hook_idx, is_changed, is_container, contexts,
                       drops, nscopes, live, RUNTIME, policy, queue, stack,
                       dropLog, seenDep, envVars>>

\* Compose for RefMap / Map: use_ref of the inner ScopeData, then the inner
\* composable is composed with it.
ComposeChild(cap) ==
    LET s == Cur
        idx == hook_idx[s]
        first == idx >= Len(hooks[s])
        c == IF first THEN nscopes + 1 ELSE hooks[s][idx + 1].val
    IN  /\ s # 0
        /\ SameCall(s, "container")
        /\ first => TotalSlots < cap
        /\ is_container' = [is_container EXCEPT ![s] = TRUE]
        /\ hooks' = [hooks EXCEPT
                        ![s] = HooksAfterUseRef(@, idx, Slot("container", c))]
        /\ contexts' = InnerContexts(contexts, s, c, first)
        /\ is_parent_changed' = InnerParentChanged(is_parent_changed, s, c)
        /\ hook_idx' = AnyComposeHookIdx([hook_idx EXCEPT ![s] = idx + 1], c)
        /\ is_changed' = AnyComposeChanged(is_changed, c)
        /\ nscopes' = IF first THEN nscopes + 1 ELSE nscopes
        /\ live' = live \cup {c}
        /\ stack' = Append(stack, c)
        /\ last' = Op("container", s, idx, first,
                      [tag |-> "scope", scope |-> c], NoRet, <<>>)
        /\ UNCHANGED <<drops, RUNTIME, policy, queue, dropLog, seenDep,
                       envVars>>

\* ScopeData::set_changed.
SetChanged(C, s) == [C EXCEPT ![s] = TRUE]

\* Mutant of ChildComposes: a child is composed when it enters the tree only.
ChildComposesOnce(first) == first

\* Whether the traversal composes the content a compose function returned:
\* on every pass.
ChildComposes(first) == TRUE

\* The compose function of the scope being composed returns its content, a
\* composable without content of its own that counts its compose calls and
\* marks its scope changed (tests::Counter), as it is (kind "child") or
\* type-erased (DynCompose::new, kind "dyn_child"): the traversal composes it
\* in a ScopeData of its own, made when it enters the tree.
ForwardChild(kind, cap) ==
    LET s == Cur
        idx == hook_idx[s]
        first == idx >= Len(hooks[s])
        c == IF first THEN nscopes + 1 ELSE hooks[s][idx + 1].val
        runs == ChildComposes(first)
    IN  /\ s # 0
        /\ SameCall(s, kind)
        /\ first => passes = 1
        /\ MayAllocate(s, 1, cap)
        /\ hooks' = [hooks EXCEPT
                        ![s] = HooksAfterUseRef(@, idx, Slot(kind, c))]
        /\ contexts' = InnerContexts(contexts, s, c, first)
        /\ hook_idx' = IF runs
                       THEN AnyComposeHookIdx(
                              [hook_idx EXCEPT ![s] = idx + 1], c)
                       ELSE [hook_idx EXCEPT ![s] = idx + 1]
        /\ is_changed' = IF runs
                         THEN SetChanged(AnyComposeChanged(is_changed, c), c)
                         ELSE is_changed
        /\ counter' = IF runs THEN [counter EXCEPT ![c] = @ + 1] ELSE counter
        /\ nscopes' = IF first THEN nscopes + 1 ELSE nscopes
        /\ live' = live \cup {c}
        /\ last' = Op(kind, s, idx, runs, [tag |-> "scope", scope |-> c],
                      NoRet, <<>>)
        /\ UNCHANGED <<is_parent_changed, is_container, drops, RUNTIME,
                       policy, queue, stack, dropLog, seenDep, otherUpdater,
                       standalone, passes, seenFn, mutated, maps, protoVars>>

\* Mutant of MemoComposes: the stored dependency is not looked at.
MemoComposesAlways(first, d, stored) == TRUE

\* Whether the traversal composes the content of a Memo: when it enters the
\* tree and when the dependency differs from the one stored.
MemoComposes(first, d, stored) == first \/ d # stored

\* The compose function of the scope being composed returns Memo::new(d, B),
\* B counting its compose calls (tests::it_memoizes_composables): the Memo
\* keeps the dependency it saw last (Rust slot idx) and the ScopeData of its
\* content (slot idx + 1).
MemoChild(cap) ==
    \E d \in Vals :
    LET s == Cur
        idx == hook_idx[s]
        first == idx >= Len(hooks[s])
        c == IF first THEN nscopes + 1 ELSE hooks[s][idx + 2].val
        stored == IF first THEN d ELSE hooks[s][idx + 1].val
        runs == MemoComposes(first, d, stored)
        H0 == HooksAfterUseRef(
                 HooksAfterUseRef(hooks[s], idx, Slot("memo_key", d)),
                 idx + 1, Slot("memo_child", c))
    IN  /\ s # 0
        /\ SameCall(s, "memo_key")
        /\ first => passes = 1
        /\ MayAllocate(s, 2, cap)
        /\ hooks' = [hooks EXCEPT ![s] = [H0 EXCEPT ![idx + 1].val = d]]
        /\ contexts' = InnerContexts(contexts, s, c, first)
        /\ hook_idx' = IF runs
                       THEN AnyComposeHookIdx(
                              [hook_idx EXCEPT ![s] = idx + 2], c)
                       ELSE [hook_idx EXCEPT ![s] = idx + 2]
        /\ is_changed' = IF runs THEN AnyComposeChanged(is_changed, c)
                         ELSE is_changed
        /\ counter' = IF runs THEN [counter EXCEPT ![c] = @ + 1] ELSE counter
        /\ nscopes' = IF first THEN nscopes + 1 ELSE nscopes
        /\ live' = live \cup {c}
        /\ seenDep' = [seenDep EXCEPT ![s][idx] = @ \cup {d}]
        /\ last' = Op("memo_child", s, idx, runs,
                      [tag |-> "scope", scope |-> c], [dep |-> d], <<>>)
        /\ UNCHANGED <<is_parent_changed, is_container, drops, RUNTIME,
                       policy, queue, stack, dropLog, otherUpdater,
                       standalone, passes, seenFn, mutated, maps, protoVars>>

\* A compose function returns once it has made every hook call of its body.
Return ==
    /\ Cur # 0
    /\ hook_idx[Cur] = Len(hooks[Cur])
    /\ stack' = SubSeq(stack, 1, Len(stack) - 1)
    /\ last' = Op("return", Cur, hook_idx[Cur], FALSE, NoRet, NoRet, <<>>)
    /\ UNCHANGED <<scopeVars, nscopes, live, RUNTIME, policy, queue, dropLog,
                   seenDep, envVars>>

\* ------------------------------------------------------------------ hooks
\* use_ref(cx, make_value), make_value producing v.
UseRef(cap) ==
    \E v \in Vals :
    LET s == Cur
        idx == hook_idx[s]
    IN  /\ s # 0
        /\ SameCall(s, "use_ref")
        /\ MayAllocate(s, 1, cap)
        /\ hooks' = [hooks EXCEPT
                        ![s] = HooksAfterUseRef(@, idx, Slot("use_ref", v))]
        /\ hook_idx' = [hook_idx EXCEPT ![s] = idx + 1]
        /\ last' = Op("use_ref", s, idx, idx >= Len(hooks[s]),
                      [tag |-> "ref", scope |-> s, idx |-> idx,
                       val |-> hooks'[s][idx + 1].val],
                      NoRet, <<>>)
        /\ UNCHANGED <<is_changed, is_parent_changed, is_container, contexts,
                       drops, nscopes, live, RUNTIME, policy, queue, stack,
                       dropLog, seenDep, envVars>>

\* Mutant of HooksAfterUseMut: a later call starts the generation anew.
HooksAfterUseMutReset(h, idx, slot) ==
    IF idx >= Len(h) THEN Append(h, slot) ELSE [h EXCEPT ![idx + 1].gen = 0]

\* use_mut: the slots after the call, a MutState with generation 0 being
\* pushed when the cursor is past the last slot.
HooksAfterUseMut(h, idx, slot) ==
    IF idx >= Len(h) THEN Append(h, slot) ELSE h

\* use_mut(cx, make_value), make_value producing v: the Mut handle.
UseMut(cap) ==
    \E v \in Vals :
    LET s == Cur
        idx == hook_idx[s]
    IN  /\ s # 0
        /\ SameCall(s, "use_mut")
        /\ MayAllocate(s, 1, cap)
        /\ hooks' = [hooks EXCEPT
                        ![s] = HooksAfterUseMut(@, idx, Slot("use_mut", v))]
        /\ hook_idx' = [hook_idx EXCEPT ![s] = idx + 1]
        /\ last' = Op("use_mut", s, idx, idx >= Len(hooks[s]),
                      [tag |-> "mut", scope |-> s, idx |-> idx,
                       val |-> hooks'[s][idx + 1].val,
                       gen |-> hooks'[s][idx + 1].gen],
                      NoRet, <<>>)
        /\ UNCHANGED <<is_changed, is_parent_changed, is_container, contexts,
                       drops, nscopes, live, RUNTIME, policy, queue, stack,
                       dropLog, seenDep, envVars>>

\* The memo key of a dependency that is PartialEq: the value itself.
Memoized(d) == d

\* Mutant of MemoChanged: the stored key is not looked at.
MemoChangedAlways(key, stored) == TRUE

\* use_memo: whether the dependency differs from the stored key.
MemoChanged(key, stored) == key # stored

\* use_memo on a changed dependency: value_mut.with and hash_mut.with, in
\* this order, the value slot at Rust index idx and the key slot behind it.
MemoUpdates(s, idx, key, v) ==
    <<Upd("with", s, idx, Set(v)), Upd("with", s, idx + 1, Set(key))>>

\* Mut::as_ref on the value slot, read when use_memo returns.
AsRef(H, s, idx) ==
    [tag |-> "ref", scope |-> s, idx |-> idx, val |-> H[s][idx + 1].val,
     gen |-> H[s][idx + 1].gen]

\* use_memo(cx, dependency, make_value), the dependency being the value d and
\* make_value producing v when it is called.
UseMemo(cap) ==
    \E d \in Vals, v \in Vals :
    LET s == Cur
        idx == hook_idx[s]
        first == idx >= Len(hooks[s])
        key == Memoized(d)
        H0 == [hooks EXCEPT ![s] =
                 HooksAfterUseMut(
                   HooksAfterUseMut(@, idx, Slot("use_memo", v)),
                   idx + 1, Slot("use_memo_key", key))]
        stored == H0[s][idx + 2].val
        made == ~first /\ MemoChanged(key, stored)
        us == MemoUpdates(s, idx, key, v)
        st0 == [St EXCEPT !.hooks = H0]
        st1 == IF made
               THEN RuntimeUpdate(RuntimeUpdate(st0, us[1]), us[2])
               ELSE st0
    IN  /\ s # 0
        /\ SameCall(s, "use_memo")
        /\ MayAllocate(s, 2, cap)
        /\ (policy = "queued" /\ made) => Len(queue) + 2 <= MaxQueue
        /\ hooks' = st1.hooks
        /\ is_changed' = st1.is_changed
        /\ queue' = st1.queue
        /\ hook_idx' = [hook_idx EXCEPT ![s] = idx + 2]
        /\ last' = Op("use_memo", s, idx, first \/ made,
                      AsRef(st1.hooks, s, idx),
                      [dep |-> key, val |-> v, first |-> first,
                       prev |-> seenDep[s][idx]],
                      st1.applied)
        /\ seenDep' = [seenDep EXCEPT ![s][idx] = {key}]
        /\ mutated' = MutatedAfter(mutated, st1.hooks, st1.applied)
        /\ UNCHANGED <<is_parent_changed, is_container, contexts, drops,
                       nscopes, live, RUNTIME, policy, stack, dropLog,
                       otherUpdater, standalone, counter, passes, seenFn, maps, protoVars>>

\* Mutant of MemoizedMut: the key is the value the handle points to.
MemoizedMutByValue(slot) == slot.val

\* Memoize for Mut: the key is the generation counter of the MutState.
MemoizedMut(slot) == slot.gen

\* Memoize for Ref: the key is the generation counter the Ref points to.
MemoizedRef(slot) == slot.gen

\* use_memo(cx, handle, make_value), the handle being the Mut or the Ref made
\* by the hook call before it and make_value copying the value behind it.
UseMemoOn(cap) ==
    LET s == Cur
        idx == hook_idx[s]
        first == idx >= Len(hooks[s])
        dep == DepIdx(hooks[s], idx)
        dslot == hooks[s][dep + 1]
        key == IF dslot.by = "use_mut" THEN MemoizedMut(dslot)
               ELSE MemoizedRef(dslot)
        v == dslot.val
        H0 == [hooks EXCEPT ![s] =
                 HooksAfterUseMut(
                   HooksAfterUseMut(@, idx, Slot("use_memo_on", v)),
                   idx + 1, Slot("use_memo_on_key", key))]
        stored == H0[s][idx + 2].val
        made == ~first /\ MemoChanged(key, stored)
        us == MemoUpdates(s, idx, key, v)
        st0 == [St EXCEPT !.hooks = H0]
        st1 == IF made
               THEN RuntimeUpdate(RuntimeUpdate(st0, us[1]), us[2])
               ELSE st0
    IN  /\ s # 0
        /\ idx >= 1
        /\ hooks[s][idx].by \in {"use_mut", "use_memo_key"}
        /\ SameCall(s, "use_memo_on")
        /\ MayAllocate(s, 2, cap)
        /\ (policy = "queued" /\ made) => Len(queue) + 2 <= MaxQueue
        /\ hooks' = st1.hooks
        /\ is_changed' = st1.is_changed
        /\ queue' = st1.queue
        /\ hook_idx' = [hook_idx EXCEPT ![s] = idx + 2]
        /\ last' = Op("use_memo_on", s, idx, first \/ made,
                      AsRef(st1.hooks, s, idx),
                      [dep |-> key, val |-> v, first |-> first, on |-> dep,
                       prev |-> seenDep[s][idx]],
                      st1.applied)
        /\ seenDep' = [seenDep EXCEPT ![s][idx] = {key}]
        /\ mutated' = MutatedAfter([mutated EXCEPT ![s][dep] = {}],
                                   st1.hooks, st1.applied)
        /\ UNCHANGED <<is_parent_changed, is_container, contexts, drops,
                       nscopes, live, RUNTIME, policy, stack, dropLog,
                       otherUpdater, standalone, counter, passes, seenFn, maps, protoVars>>

\* Mutant of CallbackAfterCall: the closure of the first call is kept.
CallbackAfterCallKeep(h, idx, f, first) == h

\* use_callback: the closure cell (Rust index idx) after the call; a call
\* that did not initialise the cell stores its closure in it.
CallbackAfterCall(h, idx, f, first) ==
    IF first THEN h ELSE [h EXCEPT ![idx + 1].val = f]

\* use_callback(cx, f): the cell holding the closure and, behind it, the
\* Rc<dyn Fn> that calls through the cell; a reference to the latter.
UseCallback(cap) ==
    \E f \in Callbacks :
    LET s == Cur
        idx == hook_idx[s]
        first == idx >= Len(hooks[s])
        H0 == HooksAfterUseRef(
                 HooksAfterUseRef(hooks[s], idx, Slot("use_callback", f)),
                 idx + 1, Slot("use_callback_rc", idx))
    IN  /\ s # 0
        /\ SameCall(s, "use_callback")
        /\ MayAllocate(s, 2, cap)
        /\ hooks' = [hooks EXCEPT ![s] = CallbackAfterCall(H0, idx, f, first)]
        /\ hook_idx' = [hook_idx EXCEPT ![s] = idx + 2]
        /\ last' = Op("use_callback", s, idx, first,
                      [tag |-> "rc", scope |-> s, idx |-> idx + 1],
                      [f |-> f], <<>>)
        /\ seenFn' = [seenFn EXCEPT ![s][idx] =
                         IF @ = <<>> THEN <<f>> ELSE <<@[Len(@)], f>>]
        /\ UNCHANGED <<is_changed, is_parent_changed, is_container, contexts,
                       drops, nscopes, live, RUNTIME, policy, queue, stack,
                       dropLog, seenDep, otherUpdater, standalone, counter,
                       passes, mutated, maps, protoVars>>

\* The callbacks handed out: the Rc slots of the live scopes.
CallbackHandles ==
    {<<s, i>> \in live \X (0..(MaxHooks - 1)) :
        i < Len(hooks[s]) /\ hooks[s][i + 1].by = "use_callback_rc"}

\* A call of the Rc<dyn Fn>: it borrows the cell and runs the closure in it.
InvokeCallback ==
    \E h \in CallbackHandles :
    LET cell == hooks[h[1]][h[2] + 1].val
    IN  /\ last' = Op("invoke", h[1], h[2], TRUE,
                      [tag |-> "ran", f |-> hooks[h[1]][cell + 1].val],
                      NoRet, <<>>)
        /\ UNCHANGED <<scopeVars, nscopes, live, RUNTIME, policy, queue,
                       stack, dropLog, seenDep, envVars>>

\* Mutant of DropsAfterUseDrop: every call registers the teardown.
DropsAfterUseDropAgain(D, idx, first) == Append(D, idx)

\* Mutant of DropsAfterUseDrop: the index is read after the cursor has moved.
DropsAfterUseDropNext(D, idx, first) ==
    IF first THEN Append(D, idx + 1) ELSE D

\* use_drop: the teardown list after the call (the init closure pushes the
\* Rust index read before use_ref).
DropsAfterUseDrop(D, idx, first) ==
    IF first THEN Append(D, idx) ELSE D

\* use_drop(cx, f), f being the callback cb.
UseDrop(cap) ==
    \E cb \in Callbacks :
    LET s == Cur
        idx == hook_idx[s]
        first == idx >= Len(hooks[s])
    IN  /\ s # 0
        /\ SameCall(s, "use_drop")
        /\ MayAllocate(s, 1, cap)
        /\ hooks' = [hooks EXCEPT
                        ![s] = HooksAfterUseRef(@, idx, Slot("use_drop", cb))]
        /\ drops' = [drops EXCEPT ![s] = DropsAfterUseDrop(@, idx, first)]
        /\ hook_idx' = [hook_idx EXCEPT ![s] = idx + 1]
        /\ last' = Op("use_drop", s, idx, first, NoRet, NoRet, <<>>)
        /\ UNCHANGED <<is_changed, is_parent_changed, is_container, contexts,
                       nscopes, live, RUNTIME, policy, queue, stack, dropLog,
                       seenDep, envVars>>

\* The shared handle (Rc) of the value a provider slot holds.
Rc(s, idx) == [tag |-> "some", scope |-> s, idx |-> idx]

\* Mutant of ContextsAfterProvider: every call inserts its slot's value.
ContextsAfterProviderAlways(C, t, rc, first) == [C EXCEPT ![t] = rc]

\* Mutant of ContextsAfterProvider: an entry the map already holds is kept.
ContextsAfterProviderKeep(C, t, rc, first) ==
    IF first /\ C[t].tag = "none" THEN [C EXCEPT ![t] = rc] ELSE C

\* use_provider: the context map after the call (the init closure inserts).
ContextsAfterProvider(C, t, rc, first) ==
    IF first THEN [C EXCEPT ![t] = rc] ELSE C

\* use_provider::<T>(cx, make_value), T being the type t.
UseProvider(cap) ==
    \E t \in Types :
    LET s == Cur
        idx == hook_idx[s]
        first == idx >= Len(hooks[s])
    IN  /\ s # 0
        /\ SameCall(s, "use_provider")
        /\ (~first) => hooks[s][idx + 1].val = t
        /\ MayAllocate(s, 1, cap)
        /\ hooks' = [hooks EXCEPT
                       ![s] = HooksAfterUseRef(@, idx, Slot("use_provider", t))]
        /\ contexts' = [contexts EXCEPT
                          ![s] = ContextsAfterProvider(@, t, Rc(s, idx), first)]
        /\ hook_idx' = [hook_idx EXCEPT ![s] = idx + 1]
        /\ last' = Op("use_provider", s, idx, first, Rc(s, idx),
                      [ty |-> t], <<>>)
        /\ UNCHANGED <<is_changed, is_parent_changed, is_container, drops,
                       nscopes, live, RUNTIME, policy, queue, stack, dropLog,
                       seenDep, envVars>>

\* Mutant of ContextLookup: a missing type falls back to any provided value.
ContextLookupAny(C, t) ==
    IF C[t].tag = "some" THEN C[t]
    ELSE IF \E x \in Types : C[x].tag = "some"
         THEN C[CHOOSE x \in Types : C[x].tag = "some"]
         ELSE [tag |-> "ContextError", ty |-> t]

\* use_context: the lookup in the scope's own context map.
ContextLookup(C, t) ==
    IF C[t].tag = "some" THEN C[t] ELSE [tag |-> "ContextError", ty |-> t]

\* use_context::<T>(cx), T being the type t.
UseContext ==
    \E t \in Types :
        /\ Cur # 0
        /\ last' = Op("use_context", Cur, hook_idx[Cur], FALSE,
                      ContextLookup(contexts[Cur], t), [ty |-> t], <<>>)
        /\ UNCHANGED <<scopeVars, nscopes, live, RUNTIME, policy, queue,
                       stack, dropLog, seenDep, envVars>>

\* ------------------------------------------------------------ Mut handles
\* The Mut handles a host holds: the use_mut slots of the live scopes.
MutHandles ==
    {<<s, i>> \in live \X (0..(MaxHooks - 1)) :
        i < Len(hooks[s]) /\ hooks[s][i + 1].by = "use_mut"}

HostFns == {Flip}

\* Mut::update / Mut::with: the Update handed to Runtime::update.
MutUpdate(h, f) == Upd("update", h[1], h[2], f)

MutWith(h, f) == Upd("with", h[1], h[2], f)

\* Mutant of RuntimeCurrent: a thread without a runtime gets a default one.
RuntimeCurrentOrDefault(R) == IF R = "None" THEN "Some" ELSE R

\* Runtime::current: the runtime entered last on the thread ("Some" is the
\* Composer's, "Other" a second Composer's), a panic when there is none.
RuntimeCurrent(R) == IF R = "None" THEN "panic" ELSE R

\* Runtime::current().update(..) as Mut::update and Mut::with call it: the
\* Update goes to the updater of the current runtime, whichever Composer the
\* handle's scope belongs to.
Request(op, u) ==
    LET rt == RuntimeCurrent(RUNTIME)
        st == IF rt = "Some" THEN RuntimeUpdate(St, u) ELSE St
    IN  /\ (rt = "Some" /\ policy = "queued") => Len(queue) < MaxPending
        /\ rt = "Other" => Len(otherUpdater) < MaxOther
        /\ hooks' = st.hooks
        /\ is_changed' = st.is_changed
        /\ queue' = st.queue
        /\ otherUpdater' = IF rt = "Other" THEN Append(otherUpdater, u)
                           ELSE otherUpdater
        /\ last' = Op(op, u.scope, u.idx, FALSE,
                      IF rt = "panic" THEN [tag |-> "panic"] ELSE NoRet,
                      [upd |-> u, to |-> rt], st.applied)
        /\ mutated' = MutatedAfter(mutated, st.hooks, st.applied)
        /\ UNCHANGED <<hook_idx, is_parent_changed, is_container, contexts,
                       drops, nscopes, live, RUNTIME, policy, stack, dropLog,
                       seenDep, standalone, counter, passes, seenFn, maps, protoVars>>

\* handle.update(f) by the host or by a compose function.
HostUpdate ==
    \E h \in MutHandles, f \in HostFns :
        /\ hooks[h[1]][h[2] + 1].gen + Pending(h[1], h[2]) < MaxGen
        /\ Request("update", MutUpdate(h, f))

\* handle.with(f) by the host or by a compose function.
HostWith ==
    \E h \in MutHandles, f \in HostFns : Request("with", MutWith(h, f))

\* *handle: the value the Mut handle points to, as it is now.
MutDeref ==
    \E h \in MutHandles :
        /\ last' = Op("deref", h[1], h[2], FALSE,
                      [tag |-> "val", val |-> hooks[h[1]][h[2] + 1].val],
                      NoRet, <<>>)
        /\ UNCHANGED <<scopeVars, nscopes, live, RUNTIME, policy, queue,
                       stack, dropLog, seenDep, envVars>>

\* A value with two fields, struct Data { a, b }, as <<a, b>>.
DataVals == {<<0, 1>>, <<1, 0>>}

\* The field projections handed to Ref::map: |d| &d.a and |d| &d.b.
Projections == {"first", "second"}

Project(f, x) == IF f = "first" THEN x[1] ELSE x[2]

\* The handles a mapped reference is read through: the Map itself,
\* RefMap::Map around it, Cow::Borrowed around that.
Wraps == {"Map", "RefMap", "Cow"}

\* use_mut(cx, make_value), make_value producing the Data v.
UseMutData(cap) ==
    \E v \in DataVals :
    LET s == Cur
        idx == hook_idx[s]
    IN  /\ s # 0
        /\ SameCall(s, "use_mut_data")
        /\ MayAllocate(s, 1, cap)
        /\ hooks' = [hooks EXCEPT
                        ![s] = HooksAfterUseMut(@, idx,
                                                Slot("use_mut_data", v))]
        /\ hook_idx' = [hook_idx EXCEPT ![s] = idx + 1]
        /\ last' = Op("use_mut", s, idx, idx >= Len(hooks[s]),
                      [tag |-> "mut", scope |-> s, idx |-> idx,
                       val |-> hooks'[s][idx + 1].val,
                       gen |-> hooks'[s][idx + 1].gen],
                      NoRet, <<>>)
        /\ UNCHANGED <<is_changed, is_parent_changed, is_container, contexts,
                       drops, nscopes, live, RUNTIME, policy, queue, stack,
                       dropLog, seenDep, envVars>>

\* The Mut handles of the Data values of the live scopes.
DataHandles ==
    {<<s, i>> \in live \X (0..(MaxHooks - 1)) :
        i < Len(hooks[s]) /\ hooks[s][i + 1].by = "use_mut_data"}

\* handle.with(|d| *d = v) on a Data value.
DataWith ==
    \E h \in DataHandles, v \in DataVals :
        /\ Len(queue) < MaxDataPending
        /\ Request("with", MutWith(h, Set(v)))

\* Ref::map(me, f): the erased base pointer and the erased projection. The
\* field made is no part of the Map: it notes what the projection yielded
\* when the Map was built, to tell a Map whose base has changed since.
Ref_map(me, f) ==
    [ptr |-> <<me.scope, me.idx>>, map_fn |-> f, made |-> Project(f, me.val)]

\* The closure stored as deref_fn: the projection g applied to the base.
MapDerefFn(base, g) == Project(g, base)

\* Mutant of MapDeref: the reference projected when the Map was built.
MapDerefCached(map, H) == map.made

\* Deref for Map: (self.deref_fn)(self.ptr, self.map_fn).
MapDeref(map, H) ==
    MapDerefFn(H[map.ptr[1]][map.ptr[2] + 1].val, map.map_fn)

\* Deref for RefMap, the Map variant.
RefMapDeref(map, H) == MapDeref(map, H)

\* Deref for Cow, the Borrowed variant.
CowDeref(map, H) == RefMapDeref(map, H)

\* A composable maps the reference of a Data value to one of its fields and
\* keeps the Map.
MakeMap ==
    \E h \in DataHandles, f \in Projections :
    LET map == Ref_map(AsRef(hooks, h[1], h[2]), f)
    IN  /\ Cardinality(maps) < MaxMaps
        /\ maps' = maps \cup {map}
        /\ last' = Op("map", h[1], h[2], FALSE, NoRet, [map |-> map], <<>>)
        /\ UNCHANGED <<scopeVars, nscopes, live, RUNTIME, policy, queue,
                       stack, dropLog, seenDep, otherUpdater, standalone,
                       counter, passes, seenFn, mutated, protoVars>>

\* A dereference of a Map made earlier, as it is (Map is Copy) or wrapped
\* by RefMap::from or Cow::from; the Map is then let go.
DerefMap ==
    \E map \in maps, w \in Wraps :
    LET val == IF w = "Map" THEN MapDeref(map, hooks)
               ELSE IF w = "RefMap" THEN RefMapDeref(map, hooks)
               ELSE CowDeref(map, hooks)
    IN  /\ maps' = maps \ {map}
        /\ last' = Op("map_deref", map.ptr[1], map.ptr[2], FALSE,
                      [tag |-> "val", val |-> val],
                      [map |-> map, wrap |-> w], <<>>)
        /\ UNCHANGED <<scopeVars, nscopes, live, RUNTIME, policy, queue,
                       stack, dropLog, seenDep, otherUpdater, standalone,
                       counter, passes, seenFn, mutated, protoVars>>

\* Host code makes a ScopeData of its own (ScopeData::default()) and calls
\* use_mut on it, outside any Composer.
HostUseMut(cap) ==
    \E v \in Vals :
    LET s == nscopes + 1
    IN  /\ stack = <<>>
        /\ standalone = {}
        /\ TotalSlots < cap
        /\ hooks' = [hooks EXCEPT
                        ![s] = HooksAfterUseMut(@, 0, Slot("use_mut", v))]
        /\ hook_idx' = [hook_idx EXCEPT ![s] = 1]
        /\ nscopes' = s
        /\ live' = live \cup {s}
        /\ standalone' = {s}
        /\ last' = Op("use_mut", s, 0, TRUE,
                      [tag |-> "mut", scope |-> s, idx |-> 0, val |-> v,
                       gen |-> 0],
                      NoRet, <<>>)
        /\ UNCHANGED <<is_changed, is_parent_changed, is_container, contexts,
                       drops, RUNTIME, policy, queue, stack, dropLog, seenDep,
                       otherUpdater, counter, passes, seenFn, mutated, maps, protoVars>>

\* compose() of a second Composer of the thread, one with its own updater
\* and with content that uses no hooks: its Runtime is entered.
OtherCompose ==
    /\ stack = <<>>
    /\ RUNTIME' = "Other"
    /\ last' = Op("other_compose", 0, 0, FALSE, NoRet, NoRet, <<>>)
    /\ UNCHANGED <<scopeVars, nscopes, live, policy, queue, stack, dropLog,
                   seenDep, envVars>>

\* The host of a queued updater applies the oldest update, between passes.
ApplyQueued ==
    LET st == Apply(St, Head(queue))
    IN  /\ stack = <<>>
        /\ queue # <<>>
        /\ hooks' = st.hooks
        /\ is_changed' = st.is_changed
        /\ queue' = Tail(queue)
        /\ last' = Op("apply", Head(queue).scope, Head(queue).idx, FALSE,
                      NoRet, [upd |-> Head(queue)], st.applied)
        /\ mutated' = MutatedAfter(mutated, st.hooks, st.applied)
        /\ UNCHANGED <<hook_idx, is_parent_changed, is_container, contexts,
                       drops, nscopes, live, RUNTIME, policy, stack, dropLog,
                       seenDep, otherUpdater, standalone, counter, passes,
                       seenFn, maps, protoVars>>

\* --------------------------------------------------------------- teardown
\* Mutant of RunDrops: the teardown list is run from its end.
RunDropsReversed(s) ==
    [k \in 1..Len(drops[s]) |->
        [scope |-> s, idx |-> drops[s][Len(drops[s]) + 1 - k],
         cb |-> hooks[s][drops[s][Len(drops[s]) + 1 - k] + 1].val]]

\* Drop for ScopeData: the callbacks of the scope's own teardown list.
RunDrops(s) ==
    [k \in 1..Len(drops[s]) |->
        [scope |-> s, idx |-> drops[s][k],
         cb |-> hooks[s][drops[s][k] + 1].val]]

RECURSIVE DropSlots(_, _)
\* Drop of a ScopeData: its own teardowns, then its fields: the hook slots in
\* order, an inner ScopeData among them being dropped in its turn.
DropScope(s) == RunDrops(s) \o DropSlots(s, 1)

DropSlots(s, k) ==
    IF k > Len(hooks[s]) THEN <<>>
    ELSE (IF hooks[s][k].by = "container"
          THEN DropScope(hooks[s][k].val) ELSE <<>>) \o DropSlots(s, k + 1)

\* The Composer is dropped between passes, and the updates its updater still
\* holds with it.
Destroy ==
    /\ 1 \in live
    /\ stack = <<>>
    /\ dropLog' = dropLog \o DropScope(1)
    /\ live' = live \cap standalone
    /\ queue' = <<>>
    /\ last' = Op("drop", 1, 0, FALSE, NoRet, NoRet, <<>>)
    /\ UNCHANGED <<scopeVars, nscopes, RUNTIME, policy, stack, seenDep,
                   envVars>>

\* ---------------------------------------------------------- View prototype
\* The state of actuate-core, which the prototype and the Window handler
\* leave alone.
coreVars == <<hooks, hook_idx, is_changed, is_parent_changed, is_container,
              contexts, drops, nscopes, live, RUNTIME, policy, queue, stack,
              last, dropLog, seenDep, otherUpdater, standalone, counter,
              passes, seenFn, mutated, maps>>

\* use_state: whether hooks.get(scope.hook_idx) is Some.
UseStateFound(h, idx) == idx < Len(h)

\* use_state: the hooks after the call, make_value producing v.
UseStateHooks(h, idx, v) == IF UseStateFound(h, idx) THEN h ELSE Append(h, v)

\* use_state: hook_idx after the call.
UseStateHookIdx(h, idx) == IF UseStateFound(h, idx) THEN idx + 1 ELSE idx

\* use_state: the Rust index of the hook whose value is returned, the hook
\* found at the cursor or the one just pushed.
UseStateValue(h, idx) == IF UseStateFound(h, idx) THEN idx ELSE Len(h)

\* use_state: SetState::idx, scope.hook_idx read after the branch.
UseStateSetter(h, idx) == UseStateHookIdx(h, idx)

\* ViewNode::build: a node is inserted into the tree, its Scope is made with
\* no hooks and hook_idx 0, and its body starts to run. The first node is
\* built by run(), a later one by the build of the body before it.
ViewNodeBuild ==
    /\ running = 0
    /\ ~received
    /\ tree_nodes < MaxViews
    /\ tree_nodes' = tree_nodes + 1
    /\ running' = tree_nodes + 1
    /\ UNCHANGED <<inner_hooks, inner_hook_idx, calls, tx, received>>
    /\ UNCHANGED <<coreVars, winVars>>

\* use_state(cx, make_value) in the running body, make_value producing v.
UseState ==
    \E v \in Vals :
    LET key == running
        h == inner_hooks[key]
        idx == inner_hook_idx[key]
    IN  /\ key # 0
        /\ Len(calls[key]) < MaxStates
        /\ inner_hooks' = [inner_hooks EXCEPT ![key] = UseStateHooks(h, idx, v)]
        /\ inner_hook_idx' = [inner_hook_idx EXCEPT
                                 ![key] = UseStateHookIdx(h, idx)]
        /\ calls' = [calls EXCEPT ![key] = Append(@,
                        [value |-> UseStateValue(h, idx),
                         setter |-> UseStateSetter(h, idx)])]
        /\ UNCHANGED <<tree_nodes, running, tx, received>>
        /\ UNCHANGED <<coreVars, winVars>>

\* The body returns the View it has built.
BodyReturn ==
    /\ running # 0
    /\ running' = 0
    /\ UNCHANGED <<tree_nodes, inner_hooks, inner_hook_idx, calls, tx,
                   received>>
    /\ UNCHANGED <<coreVars, winVars>>

\* SetState::set(value) through a setter a use_state call returned:
\* modify sends an Update with the setter's key and idx.
SetStateSet ==
    \E key \in 1..tree_nodes, v \in Vals :
    \E k \in DOMAIN calls[key] :
        /\ ~received
        /\ Len(tx) < MaxSends
        /\ tx' = Append(tx, [key |-> key, idx |-> calls[key][k].setter,
                             f |-> Set(v)])
        /\ UNCHANGED <<tree_nodes, inner_hooks, inner_hook_idx, running,
                       calls, received>>
        /\ UNCHANGED <<coreVars, winVars>>

\* run(): once the tree is built, rx.recv() takes an Update and run returns.
RunRecv ==
    /\ running = 0
    /\ tree_nodes > 0
    /\ tx # <<>>
    /\ ~received
    /\ tx' = Tail(tx)
    /\ received' = TRUE
    /\ UNCHANGED <<tree_nodes, inner_hooks, inner_hook_idx, running, calls>>
    /\ UNCHANGED <<coreVars, winVars>>

\* ----------------------------------------------------------------- Window
\* Cursor positions, as <<x, y>>.
Coords == 0..MaxCoord

\* LayoutContext of the Window: the root node of the layout tree.
LayoutCx == [parent_id |-> 1]

\* Layout trees of three nodes as taffy computed them, locations relative to
\* the parent: a column of two children that share an edge, and a chain of
\* nested nodes.
Layouts ==
    {<<[location |-> <<0, 0>>, size |-> <<2, 2>>, children |-> <<2, 3>>],
       [location |-> <<0, 0>>, size |-> <<2, 1>>, children |-> <<>>],
       [location |-> <<0, 1>>, size |-> <<2, 1>>, children |-> <<>>]>>,
     <<[location |-> <<0, 0>>, size |-> <<2, 2>>, children |-> <<2>>],
       [location |-> <<1, 0>>, size |-> <<1, 2>>, children |-> <<3>>],
       [location |-> <<0, 1>>, size |-> <<1, 1>>, children |-> <<>>]>>}

\* hit_test: the condition of the loop body, the node's box holding pos.
HitInside(pos, parent_pos, layout) ==
    /\ pos[1] >= parent_pos[1] + layout.location[1]
    /\ pos[2] >= parent_pos[2] + layout.location[2]
    /\ pos[1] <= parent_pos[1] + layout.location[1] + layout.size[1]
    /\ pos[2] <= parent_pos[2] + layout.location[2] + layout.size[2]

RECURSIVE HitLoop(_, _, _, _)
\* hit_test: the while loop over the stack keys, popped from its end.
HitLoop(T, pos, keys, tgt) ==
    IF keys = <<>> THEN tgt
    ELSE LET top == keys[Len(keys)]
             rest == SubSeq(keys, 1, Len(keys) - 1)
             layout == T[top.key]
             origin == <<top.parent_pos[1] + layout.location[1],
                         top.parent_pos[2] + layout.location[2]>>
         IN  IF HitInside(pos, top.parent_pos, layout)
             THEN HitLoop(T, pos,
                          rest \o [i \in 1..Len(layout.children) |->
                                     [parent_pos |-> origin,
                                      key |-> layout.children[i]]],
                          Some(top.key))
             ELSE HitLoop(T, pos, rest, tgt)

hit_test(T, pos, layout_cx) ==
    HitLoop(T, pos, <<[parent_pos |-> <<0, 0>>, key |-> layout_cx.parent_id]>>,
            None)

\* for f in listeners { f(event) }, when the map has listeners for the node.
Listen(L, n, ev) == IF n \in L THEN <<[ev |-> ev, to |-> n]>> ELSE <<>>

\* Mutant of CursorMovedEvents: MouseIn goes out on every hit.
CursorMovedEventsAlwaysIn(last_id, hit, L) ==
    IF hit.tag = "None" THEN <<>>
    ELSE Listen(L, hit.id, "MouseIn") \o Listen(L, hit.id, "MouseMove")

\* The CursorMoved arm: the events it delivers, in order, last_id being the
\* target it replaces and hit the result of hit_test.
CursorMovedEvents(last_id, hit, L) ==
    IF hit.tag = "None" THEN <<>>
    ELSE (IF last_id.tag = "Some"
          THEN (IF last_id.id # hit.id
                THEN Listen(L, last_id.id, "MouseOut")
                        \o Listen(L, hit.id, "MouseIn")
                ELSE <<>>)
          ELSE Listen(L, hit.id, "MouseIn"))
         \o Listen(L, hit.id, "MouseMove")

\* The CursorMoved arm: target afterwards (target.replace(Some(id))).
TargetAfter(last_id, hit) == IF hit.tag = "None" THEN last_id ELSE hit

\* Per node, whether the last MouseIn or MouseOut its listeners were given,
\* after the events D, was a MouseIn.
InsideAfter(I, D) ==
    [n \in Nodes |->
        LET ks == {k \in DOMAIN D :
                      D[k].to = n /\ D[k].ev \in {"MouseIn", "MouseOut"}}
        IN  IF ks = {} THEN I[n]
            ELSE D[CHOOSE k \in ks : \A j \in ks : j <= k].ev = "MouseIn"]

\* Window::compose: the WindowContext is provided, the content registers
\* its listeners and is laid out, the event handler is installed.
WindowCompose ==
    \E T \in Layouts, L \in SUBSET Nodes :
        /\ ~window
        /\ window' = TRUE
        /\ taffy' = T
        /\ listeners' = L
        /\ UNCHANGED <<cursor_pos, target, delivered, inside>>
        /\ UNCHANGED <<coreVars, viewVars>>

\* The event handler on WindowEvent::CursorMoved { position }.
CursorMoved ==
    \E position \in Coords \X Coords :
    LET hit == hit_test(taffy, position, LayoutCx)
        D == CursorMovedEvents(target, hit, listeners)
    IN  /\ window
        /\ cursor_pos' = position
        /\ target' = TargetAfter(target, hit)
        /\ delivered' = D
        /\ inside' = InsideAfter(inside, D)
        /\ UNCHANGED <<window, taffy, listeners>>
        /\ UNCHANGED <<coreVars, viewVars>>

\* ---------------------------------------------------------- specifications
\* A tree of composables that keep values and teardowns in their scopes.
Next ==
    \/ ComposerCompose
    \/ ComposeChild(MaxHooks)
    \/ Return
    \/ UseRef(MaxHooks)
    \/ UseDrop(MaxHooks)
    \/ Destroy

Spec == Init /\ [][Next]_vars

\* A tree of composables whose mutable values a host updates.
NextMut ==
    \/ ComposerCompose
    \/ ComposeChild(MaxMutHooks)
    \/ Return
    \/ UseMut(MaxMutHooks)
    \/ HostUpdate
    \/ HostWith
    \/ ApplyQueued
    \/ Destroy

SpecMut == Init /\ [][NextMut]_vars

\* A composable that memoizes values.
NextMemo ==
    \/ ComposerCompose
    \/ Return
    \/ UseMemo(MaxHooks)
    \/ ApplyQueued
    \/ Destroy

SpecMemo == Init /\ [][NextMemo]_vars

\* A tree of composables that provide and look up contexts.
NextCtx ==
    \/ ComposerCompose
    \/ ComposeChild(MaxHooks)
    \/ Return
    \/ UseProvider(MaxHooks)
    \/ UseContext
    \/ Destroy

SpecCtx == Init /\ [][NextCtx]_vars

\* A tree of composables that hand out callbacks.
NextCb ==
    \/ ComposerCompose
    \/ ComposeChild(MaxHooks)
    \/ Return
    \/ UseCallback(MaxHooks)
    \/ InvokeCallback
    \/ Destroy

SpecCb == Init /\ [][NextCb]_vars

\* A test: a composable that keeps values and returns a counting child, as
\* it is, type-erased or memoized, composed a counted number of times.
NextTree ==
    \/ TestCompose
    \/ UseRef(MaxHooks)
    \/ ForwardChild("child", MaxHooks)
    \/ ForwardChild("dyn_child", MaxHooks)
    \/ MemoChild(MaxHooks)
    \/ Return
    \/ Destroy

SpecTree == Init /\ [][NextTree]_vars

\* A thread with two Composers and a scope made by host code, the values
\* being updated through their handles at any time.
NextRt ==
    \/ ComposerCompose
    \/ OtherCompose
    \/ Return
    \/ UseMut(MaxRtHooks)
    \/ HostUseMut(MaxRtHooks)
    \/ HostUpdate
    \/ HostWith

SpecRt == Init /\ [][NextRt]_vars

\* A composable whose values are updated and read during and between passes.
NextUpd ==
    \/ ComposerCompose
    \/ Return
    \/ UseMut(MaxRtHooks)
    \/ HostUpdate
    \/ HostWith
    \/ MutDeref
    \/ ApplyQueued
    \/ Destroy

SpecUpd == Init /\ [][NextUpd]_vars

\* The View prototype: nodes are built, their bodies call use_state, event
\* handlers call the setters.
NextView ==
    \/ ViewNodeBuild
    \/ UseState
    \/ BodyReturn
    \/ SetStateSet
    \/ RunRecv

SpecView == Init /\ [][NextView]_vars

\* A Window whose handler receives cursor movements.
NextWin ==
    \/ WindowCompose
    \/ CursorMoved

SpecWin == Init /\ [][NextWin]_vars

\* A tree of Map / RefMap containers under a traversal that marks scopes
\* whose parent changed.
NextMap ==
    \/ ComposerCompose
    \/ MarkParentChanged
    \/ ComposeChild(MaxAllHooks)
    \/ UseProvider(MaxAllHooks)
    \/ Return
    \/ Destroy

SpecMap == Init /\ [][NextMap]_vars

\* A tree of composables that use every kind of hook.
NextHooks ==
    \/ ComposerCompose
    \/ ComposeChild(MaxAllHooks)
    \/ Return
    \/ UseRef(MaxAllHooks)
    \/ UseMut(MaxAllHooks)
    \/ UseMemo(MaxAllHooks)
    \/ UseCallback(MaxAllHooks)
    \/ UseProvider(MaxAllHooks)
    \/ UseContext
    \/ UseDrop(MaxAllHooks)
    \/ Destroy

SpecHooks == Init /\ [][NextHooks]_vars

\* A composable that memoizes on the handle of a value a host mutates.
NextDep ==
    \/ ComposerCompose
    \/ Return
    \/ UseMut(MaxRtHooks)
    \/ UseMemoOn(MaxDepHooks)
    \/ HostUpdate
    \/ HostWith
    \/ ApplyQueued

SpecDep == Init /\ [][NextDep]_vars

\* A composable that hands out mapped references to a value it updates.
NextProj ==
    \/ ComposerCompose
    \/ Return
    \/ UseMutData(MaxRtHooks)
    \/ DataWith
    \/ MakeMap
    \/ DerefMap
    \/ ApplyQueued

SpecProj == Init /\ [][NextProj]_vars

\* A composable that reads, updates and memoizes on a mutable value.
NextGen ==
    \/ ComposerCompose
    \/ Return
    \/ UseMut(MaxRtHooks)
    \/ UseMemoOn(MaxDepHooks)
    \/ HostUpdate
    \/ MutDeref
    \/ ApplyQueued

SpecGen == Init /\ [][NextGen]_vars

\* A composable that memoizes on the reference another use_memo returned.
NextRefDep ==
    \/ ComposerCompose
    \/ Return
    \/ UseMemo(MaxHooks)
    \/ UseMemoOn(MaxHooks)
    \/ ApplyQueued

SpecRefDep == Init /\ [][NextRefDep]_vars

\* ================================================================= claims
\* The number of updates among A that bump slot j (1-based) of scope s.
Bumps(A, s, j) ==
    Cardinality({k \in DOMAIN A :
        A[k].kind = "update" /\ A[k].scope = s /\ A[k].idx + 1 = j})

\* C1: the init closure of use_ref runs on the first call at a slot and on no
\* later call; a later call changes no slot and returns a reference to the
\* slot's stored value, and no step of the program changes a use_ref slot.
C1_UseRefInitOnce ==
    [][/\ \A s \in ScopeIds : \A j \in DOMAIN hooks[s] :
            hooks[s][j].by = "use_ref" =>
                j \in DOMAIN hooks'[s] /\ hooks'[s][j] = hooks[s][j]
       /\ last'.op = "use_ref" =>
            LET s == last'.scope
                i == last'.idx
            IN  IF i < Len(hooks[s])
                THEN /\ ~last'.ran
                     /\ hooks' = hooks
                     /\ last'.ret = [tag |-> "ref", scope |-> s, idx |-> i,
                                     val |-> hooks[s][i + 1].val]
                ELSE /\ last'.ran
                     /\ Len(hooks'[s]) = Len(hooks[s]) + 1
                     /\ last'.ret = [tag |-> "ref", scope |-> s, idx |-> i,
                                     val |-> hooks'[s][i + 1].val]
      ]_vars

\* A later pass has called use_ref at the second slot of a scope that holds
\* two use_ref values, and the init closure did not run.
C1_Witness ==
    /\ last.op = "use_ref"
    /\ ~last.ran
    /\ last.idx = 1
    /\ hooks[last.scope][1].by = "use_ref"
    /\ hooks[last.scope][1].val # hooks[last.scope][2].val

\* C2: every applied Mut::update runs its closure on the value, adds exactly
\* one to the value's generation counter and sets the owning scope's
\* is_changed; a counter moves in no other step, so after n applied updates
\* it is n higher.
C2_UpdateBumpsGeneration ==
    [][/\ \A s \in ScopeIds : \A j \in DOMAIN hooks[s] :
            /\ j \in DOMAIN hooks'[s]
            /\ hooks'[s][j].gen =
                  hooks[s][j].gen + Bumps(last'.applied, s, j)
       /\ \A k \in DOMAIN last'.applied :
            LET u == last'.applied[k]
            IN  u.kind = "update" =>
                  /\ hooks'[u.scope][u.idx + 1].val =
                        Call(u.f, hooks[u.scope][u.idx + 1].val)
                  /\ is_changed'[u.scope]
      ]_vars

\* A second update has been applied to a value of an inner scope.
C2_Witness ==
    /\ last.applied # <<>>
    /\ last.applied[1].kind = "update"
    /\ hooks[last.scope][last.idx + 1].gen = 2
    /\ is_changed[last.scope]
    /\ last.scope # 1

\* C3: every applied Mut::with runs its closure on the value and leaves the
\* value's generation counter and every is_changed flag as they were.
C3_WithIsSilent ==
    [][\A k \in DOMAIN last'.applied :
            LET u == last'.applied[k]
            IN  u.kind = "with" =>
                  /\ hooks'[u.scope][u.idx + 1].val =
                        Call(u.f, hooks[u.scope][u.idx + 1].val)
                  /\ hooks'[u.scope][u.idx + 1].gen =
                        hooks[u.scope][u.idx + 1].gen
                  /\ is_changed' = is_changed
      ]_vars

\* A with has been applied to a value whose scope is not marked changed and
\* whose generation counter is still zero.
C3_Witness ==
    /\ last.applied # <<>>
    /\ last.applied[1].kind = "with"
    /\ ~is_changed[last.scope]
    /\ hooks[last.scope][last.idx + 1].gen = 0

\* C4: a use_memo call whose dependency's memo key equals the key stored in
\* its slot does not call make_value, hands no update to the runtime, leaves
\* every slot as it was and returns a reference to the stored value.
C4_MemoUnchangedKey ==
    [][(/\ last'.op = "use_memo"
        /\ ~last'.arg.first
        /\ last'.arg.dep = hooks[last'.scope][last'.idx + 2].val) =>
            /\ ~last'.ran
            /\ last'.applied = <<>>
            /\ queue' = queue
            /\ hooks' = hooks
            /\ last'.ret = AsRef(hooks, last'.scope, last'.idx)
      ]_vars

\* A later call of use_memo found its dependency's key in the slot, while
\* make_value would have produced another value than the stored one.
C4_Witness ==
    /\ last.op = "use_memo"
    /\ ~last.arg.first
    /\ ~last.ran
    /\ last.arg.val # last.ret.val

\* C5: a use_memo call whose dependency's key differs from the stored key
\* calls make_value, and the call after it at that slot, made with the same
\* dependency, does not call make_value again.
C5_MemoRecomputesOnce ==
    [][(last'.op = "use_memo" /\ ~last'.arg.first) =>
            /\ last'.arg.dep # hooks[last'.scope][last'.idx + 2].val
                  => last'.ran
            /\ last'.arg.prev = {last'.arg.dep} => ~last'.ran
      ]_vars

\* C6: the reference a use_memo call returns after calling make_value
\* dereferences to the value make_value produced in that call.
C6_MemoReturnsNewValue ==
    [][(last'.op = "use_memo" /\ last'.ran) =>
            last'.ret.val = last'.arg.val
      ]_vars

\* The scope whose container slot holds the inner scope c.
ParentOf(c) ==
    CHOOSE s \in ScopeIds :
        \E j \in DOMAIN hooks[s] :
            hooks[s][j].by = "container" /\ hooks[s][j].val = c

\* The provider slots (1-based) of type t that scope s holds.
Providers(s, t) ==
    {j \in DOMAIN hooks[s] :
        hooks[s][j].by = "use_provider" /\ hooks[s][j].val = t}

Last(S) == CHOOSE j \in S : \A k \in S : k <= j

RECURSIVE Nearest(_, _)
\* The value of the nearest provider of type t that encloses scope s: the
\* scope's own latest one, else that of the nearest ancestor that has one.
Nearest(s, t) ==
    IF Providers(s, t) # {} THEN Rc(s, Last(Providers(s, t)) - 1)
    ELSE IF s = 1 THEN [tag |-> "none"]
    ELSE Nearest(ParentOf(s), t)

RECURSIVE Enclosing(_)
\* A scope and its ancestors.
Enclosing(s) == IF s = 1 THEN {1} ELSE {s} \cup Enclosing(ParentOf(s))

\* C7: use_context of a type returns the value of the nearest enclosing
\* provider of that type, a farther one being shadowed, and never a value
\* provided by a scope that is neither the calling scope nor an ancestor.
C7_ContextNearestProvider ==
    [][last'.op = "use_context" =>
            LET n == Nearest(last'.scope, last'.arg.ty)
            IN  /\ n.tag = "some" => last'.ret = n
                /\ last'.ret.tag = "some" =>
                      last'.ret.scope \in Enclosing(last'.scope)
      ]_vars

\* use_context in an inner scope of an inner scope returned the value that
\* its parent provides, the root providing a value of the same type.
C7_Witness ==
    /\ last.op = "use_context"
    /\ last.ret.tag = "some"
    /\ last.scope # 1
    /\ last.ret.scope = ParentOf(last.scope)
    /\ last.ret.scope # 1
    /\ Providers(1, last.arg.ty) # {}

Runs(s, idx) ==
    Cardinality({k \in DOMAIN dropLog :
        dropLog[k].scope = s /\ dropLog[k].idx = idx})

\* C9: a use_drop callback has not run while its scope is alive and has run
\* exactly once when the scope is destroyed; a later use_drop call at the
\* slot changes neither the slot nor the teardown list, and the callback
\* that runs is the one the slot holds.
C9_DropRunsOnceAtDestroy ==
    /\ [](\A s \in 1..nscopes : \A j \in DOMAIN hooks[s] :
            hooks[s][j].by = "use_drop" =>
                Runs(s, j - 1) = IF s \in live THEN 0 ELSE 1)
    /\ [](\A k \in DOMAIN dropLog :
            /\ dropLog[k].scope \notin live
            /\ hooks[dropLog[k].scope][dropLog[k].idx + 1].by = "use_drop"
            /\ hooks[dropLog[k].scope][dropLog[k].idx + 1].val = dropLog[k].cb)
    /\ [][/\ \A s \in ScopeIds : \A j \in DOMAIN hooks[s] :
              hooks[s][j].by = "use_drop" =>
                  j \in DOMAIN hooks'[s] /\ hooks'[s][j] = hooks[s][j]
          /\ (last'.op = "use_drop" /\ ~last'.ran) =>
                  hooks' = hooks /\ drops' = drops
         ]_vars

\* The tree was destroyed after more than one pass and the teardown of an
\* inner scope has run.
C9_Witness ==
    /\ live = {}
    /\ \E k \in DOMAIN dropLog : dropLog[k].scope # 1
    /\ \E k \in DOMAIN dropLog : dropLog[k].scope = 1

\* The Rust indices of the use_drop slots of scope s from slot k on, in slot
\* order: the order of the use_drop calls of the first pass.
RECURSIVE Registered(_, _)
Registered(s, k) ==
    IF k > Len(hooks[s]) THEN <<>>
    ELSE (IF hooks[s][k].by = "use_drop" THEN <<k - 1>> ELSE <<>>)
            \o Registered(s, k + 1)

\* The Rust indices of the teardowns of scope s in the log from entry k on.
RECURSIVE Ran(_, _)
Ran(s, k) ==
    IF k > Len(dropLog) THEN <<>>
    ELSE (IF dropLog[k].scope = s THEN <<dropLog[k].idx>> ELSE <<>>)
            \o Ran(s, k + 1)

\* C10: when a scope is destroyed its teardown callbacks run in the order in
\* which use_drop registered them, each once.
C10_DropsRunInRegistrationOrder ==
    \A s \in 1..nscopes : s \notin live => Ran(s, 1) = Registered(s, 1)

\* A scope with at least two teardowns, not in adjacent slots, is destroyed.
C10_Witness ==
    \E s \in 1..nscopes :
        /\ s \notin live
        /\ Len(drops[s]) >= 2
        /\ drops[s][2] > drops[s][1] + 1

\* C11: Mut::update or Mut::with on a thread where no Runtime was entered
\* panics at the call, and nothing is applied, queued or handed to any
\* updater: value, generation counter and is_changed flags stay as they were.
C11_NoRuntimePanics ==
    [][(last'.op \in {"update", "with"} /\ RUNTIME = "None") =>
            /\ last'.ret = [tag |-> "panic"]
            /\ last'.applied = <<>>
            /\ hooks' = hooks
            /\ is_changed' = is_changed
            /\ queue' = queue
            /\ otherUpdater' = otherUpdater
      ]_vars

\* The handle of a scope made by host code was updated before any Composer
\* composed on the thread, and the call panicked.
C11_Witness ==
    /\ last.op = "update"
    /\ last.ret = [tag |-> "panic"]
    /\ RUNTIME = "None"
    /\ last.scope \in standalone
    /\ hooks[last.scope][last.idx + 1].gen = 0

\* C12 as stated: the current runtime is Idle whenever no pass is running,
\* and an update is accepted only while a pass is running.
C12_RuntimeIdleAfterPass ==
    /\ [](stack = <<>> => RUNTIME = "None")
    /\ [][(last'.op \in {"update", "with"} /\ last'.ret # [tag |-> "panic"])
              => stack # <<>>]_vars

\* C12 as amended: no pass runs without a current runtime; compose() makes
\* the Composer's Runtime the current one; the end of a pass leaves the
\* current runtime as it is, and once a runtime is current one stays current.
C12_RuntimeStaysEntered ==
    /\ [](RUNTIME = "None" => stack = <<>>)
    /\ [][/\ last'.op = "compose" => RUNTIME' = "Some"
          /\ last'.op = "return" => RUNTIME' = RUNTIME
          /\ RUNTIME # "None" => RUNTIME' # "None"
          /\ (last'.op \in {"update", "with"} /\ RUNTIME # "None")
                => last'.ret # [tag |-> "panic"]
         ]_vars

\* Between two passes an update requested through a handle of the tree was
\* accepted by the Composer's updater.
C12_Witness ==
    /\ stack = <<>>
    /\ last.op = "update"
    /\ last.arg.to = "Some"
    /\ last.scope \notin standalone
    /\ (last.applied # <<>> \/ queue # <<>>)

\* C13: an update requested through a Mut handle of the Composer's tree is
\* never delivered to the updater of another Composer.
C13_UpdateReachesOwnUpdater ==
    [][(last'.op \in {"update", "with"} /\ last'.scope \notin standalone)
            => otherUpdater' = otherUpdater]_vars

\* C14: with a queued updater nothing is applied while a pass runs, so every
\* slot keeps the value it had when the pass began; a requested update goes
\* to the end of the queue, the update applied is the oldest one held and it
\* leaves the queue, and no other step but the Composer's drop changes the
\* queue: updates are applied in request order, once each, none lost.
C14_QueuedAppliesAfterPass ==
    [][policy = "queued" =>
          /\ stack # <<>> =>
                /\ last'.applied = <<>>
                /\ \A s \in ScopeIds : \A j \in DOMAIN hooks[s] :
                      hooks'[s][j] = hooks[s][j]
          /\ last'.op \in {"update", "with"} =>
                queue' = Append(queue, last'.arg.upd)
          /\ last'.op = "apply" =>
                LET u == Head(queue)
                IN  /\ stack = <<>>
                    /\ last'.applied = <<u>>
                    /\ queue' = Tail(queue)
                    /\ hooks'[u.scope][u.idx + 1].val =
                          Call(u.f, hooks[u.scope][u.idx + 1].val)
          /\ last'.op \notin {"update", "with", "apply", "drop"} =>
                queue' = queue
      ]_vars

\* After a pass the older of two queued updates has been applied and the
\* younger one is still held.
C14_Witness ==
    /\ policy = "queued"
    /\ last.op = "apply"
    /\ last.applied[1].kind = "update"
    /\ is_changed[last.scope]
    /\ queue # <<>>

C16_UpdateRunsAfterCompose ==
    [][(stack # <<>> /\ last'.op \in {"update", "with"}) =>
            last'.applied = <<>> /\ hooks' = hooks]_vars

\* C17: every use_callback call returns the reference to the Rc of its slot,
\* an Rc that no step replaces, and a call of that Rc runs the closure given
\* to the most recent use_callback call at the slot.
C17_CallbackStableAndLatest ==
    [][/\ \A s \in ScopeIds : \A j \in DOMAIN hooks[s] :
            hooks[s][j].by = "use_callback_rc" =>
                j \in DOMAIN hooks'[s] /\ hooks'[s][j] = hooks[s][j]
       /\ last'.op = "use_callback" =>
            /\ last'.ret = [tag |-> "rc", scope |-> last'.scope,
                            idx |-> last'.idx + 1]
            /\ hooks'[last'.scope][last'.idx + 2] =
                  Slot("use_callback_rc", last'.idx)
            /\ last'.ran = (last'.idx >= Len(hooks[last'.scope]))
       /\ last'.op = "invoke" =>
            LET given == seenFn[last'.scope][last'.idx - 1]
            IN  last'.ret.f = given[Len(given)]
      ]_vars

\* A callback was called after a later pass had given its slot another
\* closure than the pass before, and it ran the later one.
C17_Witness ==
    /\ last.op = "invoke"
    /\ LET given == seenFn[last.scope][last.idx - 1]
       IN  /\ Len(given) = 2
           /\ given[1] # given[2]
           /\ last.ret.f = given[2]

\* C18: the init of use_provider runs on the first call at its slot and on
\* no later call; that call pushes the value and registers it in the scope's
\* context map under its type, other types keeping their entries; a later
\* call changes neither slots nor context map; every call returns the
\* shared handle of the slot's value, and no step changes a provider slot.
C18_ProviderInitOnce ==
    [][/\ \A s \in ScopeIds : \A j \in DOMAIN hooks[s] :
            hooks[s][j].by = "use_provider" =>
                j \in DOMAIN hooks'[s] /\ hooks'[s][j] = hooks[s][j]
       /\ last'.op = "use_provider" =>
            LET s == last'.scope
                i == last'.idx
                t == last'.arg.ty
            IN  /\ last'.ret = Rc(s, i)
                /\ hooks'[s][i + 1] = Slot("use_provider", t)
                /\ IF i >= Len(hooks[s])
                   THEN /\ last'.ran
                        /\ Len(hooks'[s]) = Len(hooks[s]) + 1
                        /\ contexts'[s][t] = Rc(s, i)
                        /\ \A x \in Types \ {t} :
                              contexts'[s][x] = contexts[s][x]
                   ELSE /\ ~last'.ran
                        /\ hooks' = hooks
                        /\ contexts' = contexts
      ]_vars

\* A later pass called use_provider at a slot whose type a later provider of
\* the same scope has registered since: the map still holds the later one.
C18_Witness ==
    /\ last.op = "use_provider"
    /\ ~last.ran
    /\ contexts[last.scope][last.arg.ty].tag = "some"
    /\ contexts[last.scope][last.arg.ty] # last.ret

\* C19: a counting child that a compose function returns, as it is or
\* type-erased, is composed exactly once in every pass: its counter equals
\* the number of compose() calls whenever no pass is running (1 after the
\* first, 2 after the second, k after k), and within a pass it is one less
\* until the traversal has reached the child.
C19_ChildComposedEveryPass ==
    \A s \in 1..nscopes : \A j \in DOMAIN hooks[s] :
        hooks[s][j].by \in {"child", "dyn_child"} =>
            counter[hooks[s][j].val] =
                IF stack # <<>> /\ hook_idx[s] < j
                THEN passes - 1 ELSE passes

\* Two passes are over and the counter of a type-erased child is 2.
C19_Witness ==
    /\ stack = <<>>
    /\ passes = 2
    /\ \E j \in DOMAIN hooks[1] :
          /\ hooks[1][j].by = "dyn_child"
          /\ counter[hooks[1][j].val] = 2

\* C20: the content of a Memo whose dependency was the same in every pass
\* has been composed once, in the first pass, however many passes followed.
C20_MemoChildComposedOnce ==
    \A s \in 1..nscopes : \A j \in DOMAIN hooks[s] :
        (/\ hooks[s][j].by = "memo_child"
         /\ Cardinality(seenDep[s][j - 2]) = 1) =>
            counter[hooks[s][j].val] = 1

\* Three passes with the same dependency are over and the counter of the
\* Memo's content is 1.
C20_Witness ==
    /\ stack = <<>>
    /\ passes = 3
    /\ \E j \in DOMAIN hooks[1] :
          /\ hooks[1][j].by = "memo_child"
          /\ Cardinality(seenDep[1][j - 2]) = 1
          /\ counter[hooks[1][j].val] = 1

\* C21 (as stated): between two use_memo calls keyed on a Mut handle the memo
\* keys differ exactly when the value was mutated through a handle, by an
\* applied update or an applied with, in between.
C21_KeyChangesIffMutated ==
    [][(/\ last'.op = "use_memo_on"
        /\ ~last'.arg.first
        /\ hooks[last'.scope][last'.arg.on + 1].by = "use_mut") =>
            ((seenDep[last'.scope][last'.idx] # {last'.arg.dep})
                <=> (mutated[last'.scope][last'.arg.on] # {}))
      ]_vars

\* C21 (amended): between two use_memo calls keyed on a Mut handle the memo
\* keys differ exactly when a Mut::update of the value was applied in
\* between; an applied Mut::with changes the value and leaves the key as it
\* was.
C21_KeyChangesIffUpdated ==
    [][(/\ last'.op = "use_memo_on"
        /\ ~last'.arg.first
        /\ hooks[last'.scope][last'.arg.on + 1].by = "use_mut") =>
            ((seenDep[last'.scope][last'.idx] # {last'.arg.dep})
                <=> ("update" \in mutated[last'.scope][last'.arg.on]))
      ]_vars

\* A use_memo keyed on a Mut handle was called again after a with alone had
\* changed the value: the key is the one of the call before and the value
\* the memo holds is no longer the value behind the handle.
C21_Witness ==
    /\ last.op = "use_memo_on"
    /\ ~last.arg.first
    /\ hooks[last.scope][last.arg.on + 1].by = "use_mut"
    /\ last.arg.prev = {last.arg.dep}
    /\ ~last.ran
    /\ last.ret.val # hooks[last.scope][last.arg.on + 1].val

\* C22: hook slots are append-only: no step removes a slot or changes which
\* hook call a slot belongs to; a hook call made where the first pass made
\* the same call is given the slot at the cursor, the one that call
\* allocated, and appends nothing; a call past the last slot appends exactly
\* its own slot; after every step the cursor is at most the number of slots.
C22_SlotsAppendOnly ==
    [][/\ \A s \in ScopeIds :
            /\ Len(hooks'[s]) >= Len(hooks[s])
            /\ \A j \in DOMAIN hooks[s] : hooks'[s][j].by = hooks[s][j].by
            /\ hook_idx'[s] <= Len(hooks'[s])
       /\ last'.op \in {"use_ref", "use_drop", "container"} =>
            LET s == last'.scope
                i == last'.idx
            IN  /\ i = hook_idx[s]
                /\ hooks'[s][i + 1].by = last'.op
                /\ \A x \in ScopeIds \ {s} : hooks'[x] = hooks[x]
                /\ IF i < Len(hooks[s])
                   THEN hooks'[s] = hooks[s]
                   ELSE /\ Len(hooks'[s]) = Len(hooks[s]) + 1
                        /\ SubSeq(hooks'[s], 1, Len(hooks[s])) = hooks[s]
      ]_vars

\* A later pass has made the third hook call of a scope with three slots:
\* it was given the third slot and nothing was appended.
C22_Witness ==
    /\ last.op \in {"use_ref", "use_drop"}
    /\ ~last.ran
    /\ last.idx = 2
    /\ Len(hooks[last.scope]) = 3
    /\ hook_idx[last.scope] = 3
    /\ hooks[last.scope][1].by # hooks[last.scope][3].by

\* C23: within a pass of a node the hook cursor only increases: use_ref,
\* use_mut, use_provider, use_drop and a container's use_ref advance it by
\* exactly one, use_memo and use_callback by exactly two, and no other step
\* moves it, except that the cursor of a node is zero when a pass of that node
\* begins: the root's at every Composer::compose, an inner scope's whenever
\* its container composes it.
C23_CursorAdvancesAndResets ==
    [][LET s == last'.scope
           others == \A x \in ScopeIds \ {s} : hook_idx'[x] = hook_idx[x]
       IN  /\ last'.op \in {"use_ref", "use_mut", "use_provider", "use_drop"}
                => hook_idx'[s] = hook_idx[s] + 1 /\ others
           /\ last'.op \in {"use_memo", "use_callback"}
                => hook_idx'[s] = hook_idx[s] + 2 /\ others
           /\ last'.op = "compose"
                => hook_idx'[1] = 0 /\ stack' = <<1>> /\ others
           /\ last'.op = "container"
                => /\ hook_idx'[s] = hook_idx[s] + 1
                   /\ hook_idx'[last'.ret.scope] = 0
                   /\ Cur' = last'.ret.scope
                   /\ \A x \in ScopeIds \ {s, last'.ret.scope} :
                         hook_idx'[x] = hook_idx[x]
           /\ last'.op \in {"return", "use_context", "drop"}
                => hook_idx' = hook_idx
      ]_vars

\* A later pass of an inner scope has begun at cursor zero and its first
\* call, a use_callback that initialised nothing, has moved the cursor to two.
C23_Witness ==
    /\ last.op = "use_callback"
    /\ ~last.ran
    /\ last.scope # 1
    /\ last.idx = 0
    /\ hook_idx[last.scope] = 2
    /\ hook_idx[1] = 1

\* C24: a generation counter never decreases, and it moves only in a step
\* that applies a Mut::update to its value: a dereference of the handle, a
\* later use_mut or use_memo call at the slot, taking the memo key and
\* Mut::as_ref, the start and the end of a pass all leave every counter as it
\* was, and the handle or key such a call returns carries the counter's value.
C24_GenerationMovesOnlyOnUpdate ==
    [][/\ \A s \in ScopeIds : \A j \in DOMAIN hooks[s] :
            /\ hooks'[s][j].gen >= hooks[s][j].gen
            /\ hooks'[s][j].gen # hooks[s][j].gen =>
                  \E k \in DOMAIN last'.applied :
                      /\ last'.applied[k].kind = "update"
                      /\ last'.applied[k].scope = s
                      /\ last'.applied[k].idx + 1 = j
       /\ last'.op \in {"deref", "use_mut", "use_memo_on", "compose",
                         "return"} =>
            \A s \in ScopeIds : \A j \in DOMAIN hooks[s] :
                hooks'[s][j].gen = hooks[s][j].gen
       /\ (last'.op = "use_mut" /\ ~last'.ran) =>
            last'.ret.gen = hooks[last'.scope][last'.idx + 1].gen
       /\ last'.op = "use_memo_on" =>
            /\ last'.arg.dep = hooks[last'.scope][last'.arg.on + 1].gen
            /\ ~last'.arg.first =>
                  last'.ret.gen = hooks[last'.scope][last'.idx + 1].gen
      ]_vars

\* A later pass called use_mut and then use_memo keyed on the handle, on a
\* value whose counter two updates had moved to 2: the counter is still 2.
C24_Witness ==
    /\ last.op = "use_memo_on"
    /\ ~last.arg.first
    /\ last.arg.dep = 2
    /\ hooks[last.scope][last.arg.on + 1].by = "use_mut"
    /\ hooks[last.scope][last.arg.on + 1].gen = 2

\* C25: a Map or RefMap container creates the inner ScopeData on its first
\* pass, empty and with a copy of the container scope's context map, and on
\* every later pass composes the same inner ScopeData, its slots and its
\* context map untouched; on every pass the inner scope's is_parent_changed
\* is set to the container scope's is_parent_changed.
C25_ContainerReusesInnerScope ==
    [][last'.op = "container" =>
          LET s == last'.scope
              i == last'.idx
              c == last'.ret.scope
          IN  /\ is_container'[s]
              /\ is_parent_changed'[c] = is_parent_changed[s]
              /\ is_parent_changed'[s] = is_parent_changed[s]
              /\ hooks'[s][i + 1] = Slot("container", c)
              /\ Cur' = c
              /\ IF i >= Len(hooks[s])
                 THEN /\ last'.ran
                      /\ c \notin live
                      /\ c = nscopes + 1
                      /\ hooks'[c] = <<>>
                      /\ contexts'[c] = contexts[s]
                 ELSE /\ ~last'.ran
                      /\ c = hooks[s][i + 1].val
                      /\ c \in live
                      /\ hooks'[c] = hooks[c]
                      /\ contexts'[c] = contexts[c]
                      /\ nscopes' = nscopes
      ]_vars

\* A later pass of a container whose scope is marked parent-changed: the
\* inner scope made in the first pass, which holds a provider of its own, is
\* composed again and is marked too.
C25_Witness ==
    /\ last.op = "container"
    /\ ~last.ran
    /\ is_parent_changed[last.scope]
    /\ is_parent_changed[last.ret.scope]
    /\ hooks[last.ret.scope] # <<>>
    /\ contexts[last.ret.scope] # contexts[last.scope]

\* C26: when a use_memo is keyed on the Ref another use_memo returned and
\* the value behind the Ref has been replaced since the consumer's previous
\* call, the Ref's memo key differs from the key of that call and the
\* consumer recomputes.
C26_RefKeyDetectsReplacement ==
    [][(/\ last'.op = "use_memo_on"
        /\ ~last'.arg.first
        /\ hooks[last'.scope][last'.arg.on + 1].by = "use_memo"
        /\ mutated[last'.scope][last'.arg.on] # {}) =>
            /\ seenDep[last'.scope][last'.idx] # {last'.arg.dep}
            /\ last'.ran
      ]_vars

\* C27: a dereference of a Map built by Ref::map(r, f) yields f applied to
\* the base value as it is at the dereference, whatever the base was when
\* the Map was built, and the same through RefMap and a borrowed Cow.
C27_MapDerefsCurrentBase ==
    [][last'.op = "map_deref" =>
          LET map == last'.arg.map
              base == hooks[map.ptr[1]][map.ptr[2] + 1].val
          IN  /\ map \in maps
              /\ last'.ret.val = Project(map.map_fn, base)
              /\ MapDeref(map, hooks) = RefMapDeref(map, hooks)
              /\ MapDeref(map, hooks) = CowDeref(map, hooks)
      ]_vars

\* A Map of the second field was dereferenced through a Cow after the base
\* value had been replaced: it yields the new field, not the one it
\* projected when it was built.
C27_Witness ==
    /\ last.op = "map_deref"
    /\ last.arg.wrap = "Cow"
    /\ last.arg.map.map_fn = "second"
    /\ last.ret.val # last.arg.map.made
    /\ last.ret.val = hooks[last.scope][last.idx + 1].val[2]

\* C28: dropping a ScopeData cannot fail: at every moment, every index in a
\* live scope's teardown list is the index of an existing hook slot, that
\* slot holds a teardown callback which has not run yet, and no index is in
\* the list twice.
C28_TeardownListValid ==
    \A s \in live : \A k \in DOMAIN drops[s] :
        /\ drops[s][k] < Len(hooks[s])
        /\ hooks[s][drops[s][k] + 1].by = "use_drop"
        /\ \A j \in DOMAIN dropLog :
              ~(dropLog[j].scope = s /\ dropLog[j].idx = drops[s][k])
        /\ \A k2 \in DOMAIN drops[s] : drops[s][k2] = drops[s][k] => k2 = k

\* A later pass has called use_drop again in an inner scope that holds two
\* teardowns behind a value: its list still holds the two indices, once each.
C28_Witness ==
    /\ last.op = "use_drop"
    /\ ~last.ran
    /\ last.scope # 1
    /\ last.scope \in live
    /\ drops[last.scope] = <<1, 2>>
    /\ hook_idx[last.scope] = 3

\* C29: in the View prototype the k-th use_state call of a body run returns
\* the value of the k-th hook slot, so no two calls of a run return the same
\* slot, and the SetState it returns carries the index of that slot.
C29_UseStateBindsKthSlot ==
    \A key \in ViewKeys : \A k \in DOMAIN calls[key] :
        /\ calls[key][k].value = k - 1
        /\ calls[key][k].setter = calls[key][k].value

====
